---- MODULE Spec2Model ----
(***************************************************************************)
(* Job orchestration core of the Voxly server (src/server/server.py):      *)
(* the job registry, the job threads (download, worker dispatch), the      *)
(* audio cache, and the client operations that run beside them.            *)
(*                                                                         *)
(* Request handlers are coroutines of one event loop: a handler runs       *)
(* atomically up to its next await.  Job threads are OS threads: every     *)
(* statement of theirs that writes a tracked field is a step of its own.   *)
(***************************************************************************)
EXTENDS Integers, Sequences, FiniteSets, TLC

\* ------------------------------------------------------------------ bounds
\* Job ids the id generator hands out over a run (uuid4: never reused).
MaxIds == 2
\* Clock advances over a run.
MaxTicks == 1
\* File uploads that have passed the capacity check and await file.read().
MaxUploads == 1
\* Ceiling of the registry.  The source sets 100 (server.py:87); it is scaled
\* down here so that a run can fill the registry.
MAX_JOBS == 1

\* Sessions start_realtime may open.
MaxSessions == 2
\* Chunk requests that may pass the checks of add_realtime_chunk.
MaxChunks == 2

\* --------------------------------------------------------------- constants
MAX_JOB_AGE == 3600
CACHE_MAX_AGE == 86400
\* The age above which stop_realtime deletes a session, line 738.
SESSION_MAX_AGE == 3600

Ids == 1..MaxIds
Locators == {"u1"}

VARIABLES
    jobs,       \* the registry: job id -> record (a dict with optional keys)
    thread,     \* per job id: the job thread, its download tool and its worker child
    cache,      \* the cache directory: cache path -> st_mtime
    now,        \* time.time()
    nticks,     \* clock advances so far
    nextId,     \* next id the generator yields
    uploads,    \* requests of transcribe_file suspended at `await file.read()`
    lastReap,   \* history: the ids the last step's cleanup_old_jobs() removed
    fetchDone,  \* history: cache path -> time its last successful fetch completed
    born        \* history: job id of a record -> time the record was created

\* The duration/model policy, as one request sees it.
VARIABLES
    duration_seconds,   \* the audio length the request carries
    model,              \* the model name the request carries
    plan                \* what the policy answered: [model, timeout], or NoPlan

\* One dispatch of the worker, with the data it carries.
VARIABLES
    call,       \* who asked for the worker and with which credential, or NoCall
    child,      \* the worker process: its command line, environment, locals, output
    reply       \* what add_realtime_chunk returned, or NoReply

\* The realtime sessions and the chunk requests on them.
VARIABLES
    realtime_sessions,  \* the keys of the session dict
    session,            \* session id -> the dict object start_realtime made for it
    nextSid,            \* next id uuid4 yields
    reading,            \* session id -> chunk requests holding that object,
                        \* suspended at `await chunk.read()`
    nchunks,            \* chunk requests that passed the two checks so far
    result,             \* what the last subprocess.run of add_realtime_chunk gave
    dispatched,         \* history: worker processes add_realtime_chunk started
    response            \* what the last realtime handler answered

\* One assembly of a transcript in the worker, and one timestamp.
VARIABLES
    whisper_segments,       \* what the recognition engine returned
    diarization_segments,   \* the turns of the diarization engine, as given
    combined,               \* what assign_speakers returned, or <<>>
    formatted,              \* what format_transcript returned, or NoTranscript
    seconds,                \* a start time, in units of 1/Resolution s
    stamp                   \* how the worker and the server render it

jobVars == <<jobs, thread, cache, now, nticks, nextId, uploads, lastReap, fetchDone, born>>
policyVars == <<duration_seconds, model, plan>>

\* What the job threads and the handlers beside them never touch.
dispatchVars == <<call, child, reply>>
realtimeVars == <<realtime_sessions, session, nextSid, reading, nchunks, result,
                  dispatched, response>>
assemblyVars == <<whisper_segments, diarization_segments, combined, formatted,
                  seconds, stamp>>
laterVars == <<realtimeVars, assemblyVars>>
otherVars == <<policyVars, dispatchVars, laterVars>>

vars == <<jobVars, otherVars>>

\* ------------------------------------------------------------ dict helpers
Has(j) == j \in DOMAIN jobs

\* d[k] = v on a dict: adds the key when it is missing.
SetField(d, k, v) == [x \in DOMAIN d \cup {k} |-> IF x = k THEN v ELSE d[x]]

\* d.get(k, default)
GetField(d, k, default) == IF k \in DOMAIN d THEN d[k] ELSE default

\* del d[k] for every k in ks
Without(d, ks) == [x \in DOMAIN d \ ks |-> d[x]]

Terminal == {"completed", "error"}

\* ------------------------------------------------------------ the registry
cleanup_old_jobs_Unfiltered(js, t) ==
    Without(js, {j \in DOMAIN js : t - GetField(js[j], "started_at", t) > MAX_JOB_AGE})

cleanup_old_jobs(js, t) ==
    Without(js, {j \in DOMAIN js :
                    /\ GetField(js[j], "status", "none") \in Terminal
                    /\ t - GetField(js[j], "started_at", t) > MAX_JOB_AGE})

\* What GET /job/{id} returns: the record itself, as it is at that moment.
get_job_status(j) == IF Has(j) THEN [code |-> 200, body |-> jobs[j]]
                               ELSE [code |-> 404, body |-> "Job not found"]

\* ---------------------------------------------------------------- the cache
get_cache_path(url) == CASE url = "u1" -> "h1"
                         [] url = "u2" -> "h2"

cleanup_cache(c, t) == Without(c, {p \in DOMAIN c : t - c[p] > CACHE_MAX_AGE})

\* Modification times the download tool may give the file it writes: the
\* moment of the download, or an older one (the media's own date).
FileMtimes(t) == {t, t - (CACHE_MAX_AGE + 1)}

\* --------------------------------------------------------------- the threads
\* pc: where the thread is; kind: its target ("file": process_transcription_thread,
\* "url": process_url_transcription); url, audio, exc: its locals; tool: the
\* download tool it launched; child, out: the worker child and how
\* subprocess.run ended.  History, set by the cache check: miss ("absent": no
\* cached file, "stale": one of age >= TTL) and refetch (a fetch of the same
\* locator had completed less than the TTL before the check).
NoThread == [pc |-> "none", kind |-> "none", url |-> "none", audio |-> "none",
             exc |-> "none", tool |-> "none", child |-> "none", out |-> "none",
             miss |-> "none", refetch |-> FALSE]

NewThread(k, u, start) == [NoThread EXCEPT !.pc = start, !.kind = k, !.url = u]

Goto(j, p) == thread' = [thread EXCEPT ![j].pc = p]

\* The thread at p with the locals of the frames it has left dropped.
Unwound(j, p, e) == [NoThread EXCEPT !.pc = p, !.kind = thread[j].kind, !.exc = e,
                                     !.child = thread[j].child, !.out = thread[j].out]

\* An exception raised in the body of process_url_transcription or of
\* run_transcription_worker enters that function's handler.
Raise(j, handler, e) == thread' = [thread EXCEPT ![j] = Unwound(j, handler, e)]

\* The thread's target returns ("done") or an exception leaves it ("crashed").
End(j, p) == thread' = [thread EXCEPT ![j] = Unwound(j, p, "none")]

\* An exception raised inside a handler of run_transcription_worker leaves the
\* function: process_url_transcription's handler takes it, a file job's thread
\* has none.
Escape(j) ==
    IF thread[j].kind = "url"
    THEN Raise(j, "u_ex1", "KeyError")
    ELSE End(j, "crashed")

Write(j, k, v) == jobs' = [jobs EXCEPT ![j] = SetField(@, k, v)]

NoReap == lastReap' = {}

\* The registry, the threads and the cache of a server that has just started.
JobsIdle ==
    /\ jobs = <<>>
    /\ thread = [j \in Ids |-> NoThread]
    /\ cache = <<>>
    /\ now = 0
    /\ nticks = 0
    /\ nextId = 1
    /\ uploads = 0
    /\ lastReap = {}
    /\ fetchDone = <<>>
    /\ born = <<>>

NoPlan == [model |-> "none", timeout |-> 0]

\* No request has asked the policy anything.
PolicyIdle ==
    /\ duration_seconds = 0
    /\ model = "base"
    /\ plan = NoPlan

None == "None"

NoCall == [kind |-> "none", hf_token |-> None]

NoDoc == [kind |-> "empty"]

NoChild == [pc |-> "none", argv |-> <<>>, env |-> <<>>, hf_token |-> None,
            recognized |-> FALSE, diarization |-> "none",
            returncode |-> 0, stdout |-> NoDoc, stderr |-> <<>>]

NoReply == [status |-> "none", transcript |-> "", error |-> <<>>]

\* No worker has been asked for.
DispatchIdle ==
    /\ call = NoCall
    /\ child = NoChild
    /\ reply = NoReply

Sids == 1..MaxSessions

NoResponse == [op |-> "none", sid |-> 0, code |-> 0, body |-> [detail |-> "none"]]

NoOutput == [kind |-> "empty", full_text |-> ""]

NoResult == [kind |-> "none", returncode |-> 0, stdout |-> NoOutput]

\* realtime_sessions = {} at line 628, and no request has come.
RealtimeIdle ==
    /\ realtime_sessions = {}
    /\ session = <<>>
    /\ nextSid = 1
    /\ reading = [s \in Sids |-> 0]
    /\ nchunks = 0
    /\ result = NoResult
    /\ dispatched = 0
    /\ response = NoResponse

\* `combined` before assign_speakers has returned.
NotAssigned == <<[start |-> 0, end |-> 0, text |-> "", speaker |-> "none"]>>

NoTranscript == [kind |-> "none"]

NoStamp == [worker |-> "", server |-> ""]

\* The worker has nothing to assemble.
AssemblyIdle ==
    /\ whisper_segments = <<>>
    /\ diarization_segments = <<>>
    /\ combined = NotAssigned
    /\ formatted = NoTranscript
    /\ seconds = 0
    /\ stamp = NoStamp

Init == JobsIdle /\ PolicyIdle /\ DispatchIdle /\ RealtimeIdle /\ AssemblyIdle

\* --------------------------------------------------------- client operations
\* transcribe_file up to its await: reap, then the capacity check.
TranscribeFileCheck ==
    LET kept == cleanup_old_jobs(jobs, now) IN
    /\ jobs' = kept
    /\ born' = Without(born, DOMAIN jobs \ DOMAIN kept)
    /\ lastReap' = DOMAIN jobs \ DOMAIN kept
    /\ IF Cardinality(DOMAIN kept) >= MAX_JOBS
       THEN uploads' = uploads                      \* HTTP 429
       ELSE /\ uploads < MaxUploads
            /\ uploads' = uploads + 1               \* suspended at file.read()
    /\ UNCHANGED <<thread, cache, now, nticks, nextId, fetchDone, otherVars>>

\* transcribe_file after file.read(): the upload is too large (HTTP 413) ...
TranscribeFileTooLarge ==
    /\ uploads > 0
    /\ uploads' = uploads - 1
    /\ NoReap
    /\ UNCHANGED <<jobs, thread, cache, now, nticks, nextId, fetchDone, born, otherVars>>

\* ... or the record is created and the job thread started.
TranscribeFileCreate ==
    /\ uploads > 0
    /\ nextId <= MaxIds
    /\ uploads' = uploads - 1
    /\ jobs' = SetField(jobs, nextId, [status |-> "queued", progress |-> "Starting..."])
    /\ born' = SetField(born, nextId, now)
    /\ thread' = [thread EXCEPT ![nextId] = NewThread("file", "none", "w_start")]
    /\ nextId' = nextId + 1
    /\ NoReap
    /\ UNCHANGED <<cache, now, nticks, fetchDone, otherVars>>

\* transcribe_url: no await in its body, so one step.
TranscribeUrl(url) ==
    LET kept == cleanup_old_jobs(jobs, now) IN
    /\ lastReap' = DOMAIN jobs \ DOMAIN kept
    /\ IF Cardinality(DOMAIN kept) >= MAX_JOBS
       THEN /\ jobs' = kept                         \* HTTP 429
            /\ born' = Without(born, DOMAIN jobs \ DOMAIN kept)
            /\ UNCHANGED <<thread, nextId>>
       ELSE /\ nextId <= MaxIds
            /\ jobs' = SetField(kept, nextId,
                         [status |-> "queued", progress |-> "Starting download...",
                          started_at |-> now])
            /\ born' = SetField(Without(born, DOMAIN jobs \ DOMAIN kept), nextId, now)
            /\ thread' = [thread EXCEPT ![nextId] = NewThread("url", url, "u_start")]
            /\ nextId' = nextId + 1
    /\ UNCHANGED <<cache, now, nticks, uploads, fetchDone, otherVars>>

delete_job(j) ==
    /\ jobs' = IF Has(j) THEN Without(jobs, {j}) ELSE jobs
    /\ born' = Without(born, {j})
    /\ NoReap
    /\ UNCHANGED <<thread, cache, now, nticks, nextId, uploads, fetchDone, otherVars>>

Tick(d) ==
    /\ nticks < MaxTicks
    /\ now' = now + d
    /\ nticks' = nticks + 1
    /\ NoReap
    /\ UNCHANGED <<jobs, thread, cache, nextId, uploads, fetchDone, born, otherVars>>

\* ------------------------------------------------- process_url_transcription
\* line 544
UrlStart(j) ==
    /\ thread[j].pc = "u_start"
    /\ IF Has(j)
       THEN Write(j, "status", "downloading") /\ Goto(j, "dl_check")
       ELSE Raise(j, "u_ex1", "KeyError") /\ UNCHANGED jobs
    /\ NoReap
    /\ UNCHANGED <<cache, now, nticks, nextId, uploads, fetchDone, born, otherVars>>

\* download_audio_from_url, lines 364-370: the cache check.
DlCheck(j) ==
    LET p == get_cache_path(thread[j].url) IN
    /\ thread[j].pc = "dl_check"
    /\ IF p \in DOMAIN cache /\ now - cache[p] < CACHE_MAX_AGE
       THEN IF Has(j)
            THEN /\ Write(j, "progress", "Using cached audio...")
                 /\ thread' = [thread EXCEPT ![j].pc = "w_start", ![j].audio = "cache"]
            ELSE Raise(j, "u_ex1", "KeyError") /\ UNCHANGED jobs
       ELSE /\ thread' = [thread EXCEPT ![j].pc = "dl_sweep",
                            ![j].miss = IF p \in DOMAIN cache THEN "stale" ELSE "absent",
                            ![j].refetch = /\ p \in DOMAIN fetchDone
                                           /\ now >= fetchDone[p]
                                           /\ now - fetchDone[p] < CACHE_MAX_AGE]
            /\ UNCHANGED jobs
    /\ NoReap
    /\ UNCHANGED <<cache, now, nticks, nextId, uploads, fetchDone, born, otherVars>>

\* lines 373-399: the eviction sweep, the first progress update, the launch of
\* the download tool (FileNotFoundError when it is not installed).
DlSweep(j) ==
    /\ thread[j].pc = "dl_sweep"
    /\ cache' = cleanup_cache(cache, now)
    /\ IF Has(j)
       THEN /\ Write(j, "progress", "Downloading audio...")
            /\ \E installed \in BOOLEAN :
                 IF installed
                 THEN thread' = [thread EXCEPT ![j].pc = "dl_read", ![j].tool = "running"]
                 ELSE Raise(j, "u_ex1", "yt-dlp not installed")
       ELSE Raise(j, "u_ex1", "KeyError") /\ UNCHANGED jobs
    /\ NoReap
    /\ UNCHANGED <<now, nticks, nextId, uploads, fetchDone, born, otherVars>>

\* The download tool, a process of its own: it writes a progress line, ...
ToolEmit(j) ==
    /\ thread[j].tool = "running"
    /\ thread' = [thread EXCEPT ![j].tool = "line"]
    /\ NoReap
    /\ UNCHANGED <<jobs, cache, now, nticks, nextId, uploads, fetchDone, born, otherVars>>

\* ... closes its output without exiting ("closed"), or exits: code 0 with the
\* audio file ("ok"), code 0 without it ("nofile"), or a non-zero code ("failed").
ToolFinish(j, r) ==
    /\ \/ thread[j].tool \in {"running", "line"}
       \/ thread[j].tool = "closed" /\ r # "closed"
    /\ thread' = [thread EXCEPT ![j].tool = r]
    /\ NoReap
    /\ UNCHANGED <<jobs, cache, now, nticks, nextId, uploads, fetchDone, born, otherVars>>

ToolExited == {"ok", "nofile", "failed"}

\* lines 403-411: `for line in process.stdout` with a line to read.  The loop is
\* inside `try: ... except Exception: pass`, which also takes the KeyError of a
\* deleted job.
DlReadLine(j) ==
    /\ thread[j].pc = "dl_read"
    /\ thread[j].tool = "line"
    /\ IF Has(j)
       THEN /\ Write(j, "progress", "Downloading audio... N%")
            /\ thread' = [thread EXCEPT ![j].tool = "running"]
       ELSE /\ thread' = [thread EXCEPT ![j].pc = "dl_wait"]
            /\ UNCHANGED jobs
    /\ NoReap
    /\ UNCHANGED <<cache, now, nticks, nextId, uploads, fetchDone, born, otherVars>>

\* line 403 at end of file: the loop ends only when the tool's output is closed.
DlReadEof(j) ==
    /\ thread[j].pc = "dl_read"
    /\ thread[j].tool \in ToolExited \cup {"closed"}
    /\ Goto(j, "dl_wait")
    /\ NoReap
    /\ UNCHANGED <<jobs, cache, now, nticks, nextId, uploads, fetchDone, born, otherVars>>

DlWait_IgnoresFailure(j) ==
    /\ thread[j].pc = "dl_wait"
    /\ CASE thread[j].tool \in {"ok", "nofile"} -> Goto(j, "dl_copy")
         [] thread[j].tool = "failed" -> Goto(j, "w_start")
         [] OTHER -> Raise(j, "u_ex1", "Download timed out after 10 minutes")
    /\ NoReap
    /\ UNCHANGED <<jobs, cache, now, nticks, nextId, uploads, fetchDone, born, otherVars>>

\* lines 413-416 and 438-440: process.wait(timeout=600).
DlWait(j) ==
    /\ thread[j].pc = "dl_wait"
    /\ CASE thread[j].tool \in {"ok", "nofile"} -> Goto(j, "dl_copy")
         [] thread[j].tool = "failed" -> Raise(j, "u_ex1", "yt-dlp failed with exit code")
         [] OTHER -> Raise(j, "u_ex1", "Download timed out after 10 minutes")
    /\ NoReap
    /\ UNCHANGED <<jobs, cache, now, nticks, nextId, uploads, fetchDone, born, otherVars>>

\* shutil.copy2(audio_file, cache_path) at time t of a file whose modification
\* time is m: the copy keeps the source's modification time.
copy2(c, p, m, t) == SetField(c, p, m)

\* lines 418-436: find the file, copy it to the cache, last progress update.
DlCopy(j) ==
    LET p == get_cache_path(thread[j].url) IN
    /\ thread[j].pc = "dl_copy"
    /\ IF thread[j].tool = "nofile"
       THEN /\ Raise(j, "u_ex1", "Download completed but audio file not found")
            /\ UNCHANGED <<jobs, cache, fetchDone, born>>
       ELSE /\ \E m \in FileMtimes(now) : cache' = copy2(cache, p, m, now)
            /\ fetchDone' = SetField(fetchDone, p, now)
            /\ IF Has(j)
               THEN /\ Write(j, "progress", "Download complete")
                    /\ thread' = [thread EXCEPT ![j].pc = "w_start", ![j].audio = "temp",
                                                ![j].tool = "none", ![j].miss = "none",
                                                ![j].refetch = FALSE]
               ELSE Raise(j, "u_ex1", "KeyError") /\ UNCHANGED jobs
    /\ NoReap
    /\ UNCHANGED <<now, nticks, nextId, uploads, born, otherVars>>

\* line 548
UrlExcept1(j) ==
    /\ thread[j].pc = "u_ex1"
    /\ IF Has(j)
       THEN Write(j, "status", "error") /\ Goto(j, "u_ex2")
       ELSE End(j, "crashed") /\ UNCHANGED jobs
    /\ NoReap
    /\ UNCHANGED <<cache, now, nticks, nextId, uploads, fetchDone, born, otherVars>>

\* lines 549-558
UrlExcept2(j) ==
    /\ thread[j].pc = "u_ex2"
    /\ IF Has(j)
       THEN Write(j, "error", thread[j].exc) /\ End(j, "done")
       ELSE End(j, "crashed") /\ UNCHANGED jobs
    /\ NoReap
    /\ UNCHANGED <<cache, now, nticks, nextId, uploads, fetchDone, born, otherVars>>

\* --------------------------------------------------- run_transcription_worker
\* What subprocess.run can return with: a non-zero exit code ("nonzero"); exit 0
\* with the success document ("ok"), with a JSON object that has neither
\* 'result' nor 'error' ("noresult"), with {"error": ...} ("errdoc"), or with
\* output that is no JSON object ("garbage").
WorkerOutcomes == {"ok", "noresult", "errdoc", "garbage", "nonzero"}

\* lines 448-487: status, progress, the check of the audio path, the launch.
WorkerStart(j) ==
    /\ thread[j].pc = "w_start"
    /\ IF Has(j)
       THEN /\ jobs' = [jobs EXCEPT ![j] =
                          SetField(SetField(@, "status", "processing"),
                                   "progress", "Transcribing...")]
            /\ IF /\ thread[j].audio = "cache"
                  /\ get_cache_path(thread[j].url) \notin DOMAIN cache
               THEN Raise(j, "w_ex1", "Audio file not found")
               ELSE thread' = [thread EXCEPT ![j].pc = "w_wait", ![j].child = "running",
                                               ![j].url = "none", ![j].audio = "none"]
       ELSE Raise(j, "w_ex1", "KeyError") /\ UNCHANGED jobs
    /\ NoReap
    /\ UNCHANGED <<cache, now, nticks, nextId, uploads, fetchDone, born, otherVars>>

\* lines 480-503 and 510-511: the child exits within the deadline.
WorkerReturn(j, o) ==
    /\ thread[j].pc = "w_wait"
    /\ thread' = [thread EXCEPT
                    ![j].child = "exited",
                    ![j].out = o,
                    ![j].pc = IF o \in {"ok", "noresult"} THEN "w_done1" ELSE "w_ex1",
                    ![j].exc = CASE o = "nonzero" -> "Transcription failed"
                                 [] o = "errdoc" -> "worker error"
                                 [] o = "garbage" -> "Worker output parsing failed"
                                 [] OTHER -> @]
    /\ NoReap
    /\ UNCHANGED <<jobs, cache, now, nticks, nextId, uploads, fetchDone, born, otherVars>>

WorkerTimeout_NoKill(j) ==
    /\ thread[j].pc = "w_wait"
    /\ thread' = [thread EXCEPT ![j].out = "timeout", ![j].pc = "w_to1"]
    /\ NoReap
    /\ UNCHANGED <<jobs, cache, now, nticks, nextId, uploads, fetchDone, born, otherVars>>

\* line 480 with the deadline passed: subprocess.run kills the child, drops what
\* it had written and raises TimeoutExpired.
WorkerTimeout(j) ==
    /\ thread[j].pc = "w_wait"
    /\ thread' = [thread EXCEPT ![j].child = "killed", ![j].out = "timeout",
                                ![j].pc = "w_to1"]
    /\ NoReap
    /\ UNCHANGED <<jobs, cache, now, nticks, nextId, uploads, fetchDone, born, otherVars>>

\* lines 505-507
WorkerDone1(j) ==
    /\ thread[j].pc = "w_done1"
    /\ IF Has(j)
       THEN /\ jobs' = [jobs EXCEPT ![j] =
                          SetField(SetField(@, "status", "completed"), "progress", "Done!")]
            /\ Goto(j, "w_done2")
       ELSE Raise(j, "w_ex1", "KeyError") /\ UNCHANGED jobs
    /\ NoReap
    /\ UNCHANGED <<cache, now, nticks, nextId, uploads, fetchDone, born, otherVars>>

\* lines 508-509: output['result'] raises KeyError when the document has none.
WorkerDone2(j) ==
    /\ thread[j].pc = "w_done2"
    /\ IF Has(j) /\ thread[j].out = "ok"
       THEN Write(j, "result", "transcript") /\ End(j, "done")
       ELSE Raise(j, "w_ex1", "KeyError") /\ UNCHANGED jobs
    /\ NoReap
    /\ UNCHANGED <<cache, now, nticks, nextId, uploads, fetchDone, born, otherVars>>

\* line 514
WorkerTimeout1(j) ==
    /\ thread[j].pc = "w_to1"
    /\ IF Has(j)
       THEN Write(j, "status", "error") /\ Goto(j, "w_to2")
       ELSE Escape(j) /\ UNCHANGED jobs
    /\ NoReap
    /\ UNCHANGED <<cache, now, nticks, nextId, uploads, fetchDone, born, otherVars>>

\* lines 515-519
WorkerTimeout2(j) ==
    /\ thread[j].pc = "w_to2"
    /\ IF Has(j)
       THEN Write(j, "error", "Transcription timed out") /\ End(j, "done")
       ELSE Escape(j) /\ UNCHANGED jobs
    /\ NoReap
    /\ UNCHANGED <<cache, now, nticks, nextId, uploads, fetchDone, born, otherVars>>

WorkerExcept1_Requeue(j) ==
    /\ thread[j].pc = "w_ex1"
    /\ IF Has(j)
       THEN Write(j, "status", "queued") /\ Goto(j, "w_ex2")
       ELSE Escape(j) /\ UNCHANGED jobs
    /\ NoReap
    /\ UNCHANGED <<cache, now, nticks, nextId, uploads, fetchDone, born, otherVars>>

\* line 521, were it to put back a record that is gone
WorkerExcept1_Recreates(j) ==
    /\ thread[j].pc = "w_ex1"
    /\ jobs' = IF Has(j) THEN [jobs EXCEPT ![j] = SetField(@, "status", "error")]
               ELSE SetField(jobs, j, [status |-> "error"])
    /\ born' = IF Has(j) THEN born ELSE SetField(born, j, now)
    /\ Goto(j, "w_ex2")
    /\ NoReap
    /\ UNCHANGED <<cache, now, nticks, nextId, uploads, fetchDone, otherVars>>

\* line 521
WorkerExcept1(j) ==
    /\ thread[j].pc = "w_ex1"
    /\ IF Has(j)
       THEN Write(j, "status", "error") /\ Goto(j, "w_ex2")
       ELSE Escape(j) /\ UNCHANGED jobs
    /\ NoReap
    /\ UNCHANGED <<cache, now, nticks, nextId, uploads, fetchDone, born, otherVars>>

\* lines 522-531
WorkerExcept2(j) ==
    /\ thread[j].pc = "w_ex2"
    /\ IF Has(j)
       THEN Write(j, "error", thread[j].exc) /\ End(j, "done")
       ELSE Escape(j) /\ UNCHANGED jobs
    /\ NoReap
    /\ UNCHANGED <<cache, now, nticks, nextId, uploads, fetchDone, born, otherVars>>

\* ------------------------------------------------------------- specification
\* The steps of job j's own thread.
ThreadStep(j) ==
    \/ UrlStart(j) \/ DlCheck(j) \/ DlSweep(j) \/ DlReadLine(j) \/ DlReadEof(j)
    \/ DlWait(j) \/ DlCopy(j) \/ UrlExcept1(j) \/ UrlExcept2(j)
    \/ WorkerStart(j) \/ (\E o \in WorkerOutcomes : WorkerReturn(j, o))
    \/ WorkerTimeout(j) \/ WorkerDone1(j) \/ WorkerDone2(j)
    \/ WorkerTimeout1(j) \/ WorkerTimeout2(j) \/ WorkerExcept1(j) \/ WorkerExcept2(j)

\* The steps of the download tool job j launched.
ToolStep(j) ==
    \/ ToolEmit(j)
    \/ \E r \in ToolExited \cup {"closed"} : ToolFinish(j, r)

\* The clock moves by a retention window, or by just more than one.
TickSteps == {MAX_JOB_AGE, MAX_JOB_AGE + 1, CACHE_MAX_AGE + 1}

Next ==
    \/ TranscribeFileCheck
    \/ TranscribeFileTooLarge
    \/ TranscribeFileCreate
    \/ \E u \in Locators : TranscribeUrl(u)
    \/ \E j \in Ids : delete_job(j)
    \/ \E d \in TickSteps : Tick(d)
    \/ \E j \in Ids : ThreadStep(j)
    \/ \E j \in Ids : ToolStep(j)

Spec == Init /\ [][Next]_vars

\* ----------------------------------------------------- duration/model policy
\* Longest audio a request carries, in seconds.
MaxDuration == 9600

Durations == 0..MaxDuration

MODEL_SPEEDS ==
    ("tiny" :> 32) @@ ("tiny.en" :> 32) @@ ("base" :> 16) @@ ("base.en" :> 16) @@
    ("small" :> 6) @@ ("small.en" :> 6) @@ ("medium" :> 2) @@ ("medium.en" :> 2) @@
    ("large" :> 1) @@ ("large-v2" :> 1) @@ ("large-v3" :> 1)

\* The names a request may carry: those of the table, and one that is not in it.
ModelNames == DOMAIN MODEL_SPEEDS \cup {"turbo"}

Max(a, b) == IF a >= b THEN a ELSE b
Min(a, b) == IF a <= b THEN a ELSE b

select_optimal_model_MidTier(d) ==
    IF d <= 600 THEN "base"
    ELSE IF d <= 1800 THEN "base"
    ELSE IF d <= 3600 THEN "small"
    ELSE "tiny"

select_optimal_model_Strict(d) ==
    IF d < 600 THEN "base"
    ELSE IF d < 1800 THEN "base"
    ELSE IF d < 3600 THEN "tiny"
    ELSE "tiny"

select_optimal_model(d) ==
    IF d <= 600 THEN "base"
    ELSE IF d <= 1800 THEN "base"
    ELSE IF d <= 3600 THEN "tiny"
    ELSE "tiny"

calculate_timeout_NoCeiling(d, m) ==
    LET speed == GetField(MODEL_SPEEDS, m, 16)
        timeout == (3 * d) \div (2 * speed) + 180
    IN  Max(300, timeout)

calculate_timeout_FastDefault(d, m) ==
    LET speed == GetField(MODEL_SPEEDS, m, 32)
        timeout == (3 * d) \div (2 * speed) + 180
    IN  Max(300, Min(timeout, 14400))

\* int((d / speed) * 1.5 + 180) for an integer d >= 0 is the whole part of
\* 3d / (2 speed) + 180: the float quotient is off by far less than the 1/4
\* that separates 3d / (2 speed) from the next whole number.
calculate_timeout(d, m) ==
    LET speed == GetField(MODEL_SPEEDS, m, 16)
        timeout == (3 * d) \div (2 * speed) + 180
    IN  Max(300, Min(timeout, 14400))

\* What the policy answers to a request that carries (d, m): the model it
\* recommends for d, and the deadline for d under m.
Answer(d, m) == [model |-> select_optimal_model(d), timeout |-> calculate_timeout(d, m)]

\* A request asks the policy.
Ask ==
    /\ plan = NoPlan
    /\ plan' = Answer(duration_seconds, model)
    /\ UNCHANGED <<duration_seconds, model, jobVars, dispatchVars, laterVars>>

\* The next request is for the same model and an audio one second longer.
AskLonger ==
    /\ plan # NoPlan
    /\ duration_seconds < MaxDuration
    /\ duration_seconds' = duration_seconds + 1
    /\ plan' = Answer(duration_seconds + 1, model)
    /\ UNCHANGED <<model, jobVars, dispatchVars, laterVars>>

PolicyInit ==
    /\ JobsIdle
    /\ DispatchIdle
    /\ RealtimeIdle
    /\ AssemblyIdle
    /\ duration_seconds \in Durations
    /\ model \in ModelNames
    /\ plan = NoPlan

PolicyNext == Ask \/ AskLonger

PolicySpec == PolicyInit /\ [][PolicyNext]_vars

\* ------------------------------------------------------------ the estimates
\* Longest audio a quoted request carries, in seconds.
MaxQuoted == 14400

\* The models calculate_estimates quotes, line 227.
EstimateModels == {"tiny", "base", "small", "medium", "large"}

\* What the `model` form field of transcribe_url can hold.
QuotedModels == EstimateModels \cup {"auto"}

\* server.py 179-191
format_duration(secs) ==
    IF secs < 60 THEN ToString(secs) \o " seconds"
    ELSE IF secs < 3600
    THEN LET mins == secs \div 60 IN
         ToString(mins) \o " minute" \o (IF mins # 1 THEN "s" ELSE "")
    ELSE LET hours == secs \div 3600
             mins == (secs % 3600) \div 60
         IN  IF mins > 0
             THEN ToString(hours) \o "h " \o ToString(mins) \o "m"
             ELSE ToString(hours) \o " hour" \o (IF hours # 1 THEN "s" ELSE "")

\* int(duration_seconds / speed) + 30, lines 229 and 949
estimated_time(d, m) == (d \div GetField(MODEL_SPEEDS, m, 16)) + 30

calculate_estimates(d) ==
    [m \in EstimateModels |->
        [seconds |-> estimated_time(d, m),
         formatted |-> format_duration(estimated_time(d, m))]]

\* transcribe_url, lines 939-952: the model, the deadline and the estimate the
\* job is created with and the client is answered.
Quote ==
    LET chosen == IF model = "auto"
                  THEN IF duration_seconds # 0
                       THEN select_optimal_model(duration_seconds) ELSE "base"
                  ELSE model
    IN
    /\ plan = NoPlan
    /\ plan' = IF duration_seconds # 0
               THEN [model |-> chosen,
                     timeout |-> calculate_timeout(duration_seconds, chosen),
                     estimated_time |-> estimated_time(duration_seconds, chosen)]
               ELSE [model |-> chosen, timeout |-> 1800]
    /\ UNCHANGED <<duration_seconds, model, jobVars, dispatchVars, laterVars>>

\* preflight_check, lines 776-778
Preflight ==
    /\ plan = NoPlan
    /\ plan' = [estimates |-> calculate_estimates(duration_seconds),
                recommended_model |-> select_optimal_model(duration_seconds),
                timeout_seconds |->
                    calculate_timeout(duration_seconds,
                                      select_optimal_model(duration_seconds))]
    /\ UNCHANGED <<duration_seconds, model, jobVars, dispatchVars, laterVars>>

EstimateInit ==
    /\ JobsIdle
    /\ DispatchIdle
    /\ RealtimeIdle
    /\ AssemblyIdle
    /\ duration_seconds \in 0..MaxQuoted
    /\ model \in QuotedModels
    /\ plan = NoPlan

EstimateNext == Quote \/ Preflight

EstimateSpec == EstimateInit /\ [][EstimateNext]_vars

\* ------------------------------------------------------------ error messages
\* A message is a sequence of parts; a part is a stretch of characters of one
\* kind: plain words ("text"), an absolute path that has a directory
\* ("path": /tmp/tmpk3.wav), an absolute path that has none ("rootpath": /tmp),
\* a string of the shape hf_ + alphanumerics ("token"), or a placeholder.
Text == [kind |-> "text", len |-> 30]
LongText == [kind |-> "text", len |-> 600]
AlmostFull == [kind |-> "text", len |-> 490]
AbsPath == [kind |-> "path", len |-> 20]
RootPath == [kind |-> "rootpath", len |-> 4]
TokenText == [kind |-> "token", len |-> 37]

RECURSIVE MsgLen(_)
MsgLen(msg) == IF msg = <<>> THEN 0 ELSE Head(msg).len + MsgLen(Tail(msg))

\* msg[:n]; the part the cut falls in keeps its kind.
RECURSIVE Truncate(_, _)
Truncate(msg, n) ==
    IF msg = <<>> \/ n <= 0 THEN <<>>
    ELSE IF Head(msg).len >= n THEN <<[Head(msg) EXCEPT !.len = n]>>
    ELSE <<Head(msg)>> \o Truncate(Tail(msg), n - Head(msg).len)

\* re.sub(r'(/[^\s:]+/)+[^\s:]*', '<path>', msg), then
\* re.sub(r'hf_[a-zA-Z0-9]{10,}', '<redacted>', msg): the first pattern needs a
\* second slash, the second one ten characters after hf_.
Redact(part) ==
    CASE part.kind = "path" -> [kind |-> "<path>", len |-> 6]
      [] part.kind = "token" /\ part.len >= 13 -> [kind |-> "<redacted>", len |-> 10]
      [] OTHER -> part

sanitize_error_message(msg) == Truncate([i \in DOMAIN msg |-> Redact(msg[i])], 500)

\* What a failing process may write about its failure.
Diagnostics == {<<>>, <<Text>>, <<Text, AbsPath>>, <<Text, RootPath>>,
                <<Text, TokenText>>, <<LongText, AbsPath>>, <<AlmostFull, TokenText>>}

\* ------------------------------------------------------------ the worker
\* The credential a client may supply.
Credentials == {"hf_AbCdEfGhIjKlMn"}

\* argparse: the value that follows the flag on the command line, None without.
ArgValue(argv, flag) ==
    IF \E i \in 1..(Len(argv) - 1) : argv[i] = flag
    THEN argv[(CHOOSE i \in 1..(Len(argv) - 1) : argv[i] = flag) + 1]
    ELSE None

\* worker.py main(), lines 263-272: the arguments, and the credential
\* run_transcription is called with.
worker_main ==
    /\ child.pc = "main"
    /\ child' = [child EXCEPT !.pc = "recognize",
                              !.hf_token = ArgValue(child.argv, "--hf-token")]
    /\ UNCHANGED <<call, reply, jobVars, policyVars, laterVars>>

\* The result document of run_transcription, lines 235-255.
ResultDoc(with_speakers, status, reason) ==
    [kind |-> "success",
     result |-> [speakers |-> with_speakers, diarization_status |-> status,
                 diarization_error |-> reason],
     language |-> "en"]

\* worker.py lines 164-173 and 276-279: conversion and recognition.  A failure
\* is caught in main(): {"error": str(e)} on stdout, exit code 1.
Recognize(ok, diag) ==
    /\ child.pc = "recognize"
    /\ IF ok
       THEN child' = [child EXCEPT !.pc = "diarize", !.recognized = TRUE]
       ELSE child' = [child EXCEPT !.pc = "exited", !.returncode = 1,
                                   !.stdout = [kind |-> "error", error |-> diag]]
    /\ UNCHANGED <<call, reply, jobVars, policyVars, laterVars>>

\* What str(e) of a failure of the diarization engine may be.
DiarizationErrors == {"", "Could not download pipeline"}

\* worker.py lines 240-246: the handler of a diarization failure.
DiarizationFailed_Raises(e) ==
    child' = [child EXCEPT !.pc = "exited", !.diarization = "raised", !.returncode = 1,
                           !.stdout = [kind |-> "error", error |-> <<Text>>]]

DiarizationFailed(e) ==
    child' = [child EXCEPT !.pc = "exited", !.diarization = "raised", !.returncode = 0,
                           !.stderr = <<Text>>,
                           !.stdout = ResultDoc(FALSE, "failed", e)]

\* worker.py lines 176-255 and 272-275: diarization when a credential was
\* given, the document on stdout, exit code 0.
Diarize ==
    /\ child.pc = "diarize"
    /\ IF child.hf_token # None
       THEN \/ child' = [child EXCEPT !.pc = "exited", !.diarization = "done",
                                      !.stdout = ResultDoc(TRUE, "success", None)]
            \/ \E e \in DiarizationErrors : DiarizationFailed(e)
       ELSE child' = [child EXCEPT !.pc = "exited",
                         !.stdout = ResultDoc(FALSE, "skipped",
                                              "No Hugging Face token provided")]
    /\ UNCHANGED <<call, reply, jobVars, policyVars, laterVars>>

\* The worker ends outside its own handlers, before recognition is through: it
\* dies with a non-zero code ("nonzero"), or exits 0 with nothing on stdout
\* ("silent"), with text that is no JSON ("garbage"), or with a JSON object
\* that has neither result nor error ("other").
Breakdowns == {"nonzero", "silent", "garbage", "other"}

WorkerBreaks(how, diag) ==
    /\ child.pc \in {"main", "recognize"}
    /\ child' = [child EXCEPT
                    !.pc = "exited",
                    !.returncode = IF how = "nonzero" THEN 1 ELSE 0,
                    !.stderr = IF how = "nonzero" THEN diag ELSE <<>>,
                    !.stdout = CASE how = "garbage" -> [kind |-> "garbage"]
                                 [] how = "other" -> [kind |-> "other"]
                                 [] OTHER -> NoDoc]
    /\ UNCHANGED <<call, reply, jobVars, policyVars, laterVars>>

\* ------------------------------------------------------------ the dispatcher
\* The record transcribe_file creates (lines 611-615); hf_token is the
\* credential of the request.
NewJobRecord_KeepsToken(hf_token) ==
    [status |-> "queued", progress |-> "Starting...", filename |-> "talk.mp3",
     hf_token |-> hf_token]

NewJobRecord(hf_token) ==
    [status |-> "queued", progress |-> "Starting...", filename |-> "talk.mp3"]

\* lines 465-471 and 682-688: the worker's command line for call c.
WorkerArgv_WithToken(c) ==
    <<"python", "worker.py", "--audio", "/tmp/tmpk3.mp3", "--model", "base",
      "--job-id", c.kind>>
    \o (IF c.hf_token # None THEN <<"--hf-token", c.hf_token>> ELSE <<>>)

WorkerArgv(c) ==
    <<"python", "worker.py", "--audio", "/tmp/tmpk3.mp3", "--model", "base",
      "--job-id", c.kind>>

\* lines 474-476 (a job) and 696 (a chunk): the worker's environment, as far as
\* it differs from the server's own.
WorkerEnv(c) ==
    IF c.kind = "job" /\ c.hf_token # None
    THEN [HF_TOKEN |-> c.hf_token]
    ELSE <<>>

StartChild(argv, env) == [NoChild EXCEPT !.pc = "main", !.argv = argv, !.env = env]

\* transcribe_file, lines 608-622, for a request with credential tok.
SubmitJob(tok) ==
    /\ call = NoCall
    /\ call' = [kind |-> "job", hf_token |-> tok]
    /\ jobs' = SetField(jobs, nextId, NewJobRecord(tok))
    /\ UNCHANGED <<child, reply, policyVars, laterVars>>
    /\ UNCHANGED <<thread, cache, now, nticks, nextId, uploads, lastReap, fetchDone, born>>

\* add_realtime_chunk, lines 654-668: a chunk for an active session.
SubmitChunk ==
    /\ call = NoCall
    /\ call' = [kind |-> "chunk", hf_token |-> None]
    /\ UNCHANGED <<child, reply, jobVars, policyVars, laterVars>>

\* The worker script started from a shell, with or without --hf-token.
RunByHand(tok) ==
    /\ call = NoCall
    /\ call' = [kind |-> "cli", hf_token |-> tok]
    /\ child' = StartChild(
                  <<"python", "worker.py", "--audio", "/tmp/tmpk3.mp3">>
                  \o (IF tok # None THEN <<"--hf-token", tok>> ELSE <<>>),
                  <<>>)
    /\ UNCHANGED <<reply, jobVars, policyVars, laterVars>>

\* lines 448-487 and 681-697 up to the start of the child.
Launch ==
    /\ call.kind \in {"job", "chunk"}
    /\ child = NoChild
    /\ child' = StartChild(WorkerArgv(call), WorkerEnv(call))
    /\ IF call.kind = "job"
       THEN jobs' = [jobs EXCEPT ![nextId] =
                        SetField(SetField(@, "status", "processing"),
                                 "progress", "Transcribing...")]
       ELSE UNCHANGED jobs
    /\ UNCHANGED <<call, reply, policyVars, laterVars>>
    /\ UNCHANGED <<thread, cache, now, nticks, nextId, uploads, lastReap, fetchDone, born>>

\* str(e) of the OSError subprocess.run raises when the interpreter cannot be
\* started: "[Errno 2] No such file or directory: '/.../python'".
LaunchError == <<Text, AbsPath>>

\* The job's handler of line 520 (error text through sanitize_error_message),
\* the chunk's handler of lines 719-721 (str(e) as it is).
Failed(e) ==
    IF call.kind = "job"
    THEN /\ jobs' = [jobs EXCEPT ![nextId] =
                       SetField(SetField(@, "status", "error"),
                                "error", sanitize_error_message(e))]
         /\ UNCHANGED reply
    ELSE /\ reply' = [status |-> "error", transcript |-> "", error |-> e]
         /\ UNCHANGED jobs

\* lines 480 and 690: subprocess.run cannot start the child.
LaunchFails ==
    /\ call.kind \in {"job", "chunk"}
    /\ child = NoChild
    /\ child' = [NoChild EXCEPT !.pc = "notstarted"]
    /\ Failed(LaunchError)
    /\ UNCHANGED <<call, policyVars, laterVars>>
    /\ UNCHANGED <<thread, cache, now, nticks, nextId, uploads, lastReap, fetchDone, born>>

\* lines 513-519 and 714-717: the deadline passes; the message is a fixed text.
DispatchTimeout ==
    /\ call.kind \in {"job", "chunk"}
    /\ child.pc \in {"main", "recognize", "diarize"}
    /\ child' = [child EXCEPT !.pc = "killed"]
    /\ IF call.kind = "job"
       THEN /\ jobs' = [jobs EXCEPT ![nextId] =
                          SetField(SetField(@, "status", "error"), "error", <<Text>>)]
            /\ UNCHANGED reply
       ELSE /\ reply' = [status |-> "error", transcript |-> "", error |-> <<Text>>]
            /\ UNCHANGED jobs
    /\ UNCHANGED <<call, policyVars, laterVars>>
    /\ UNCHANGED <<thread, cache, now, nticks, nextId, uploads, lastReap, fetchDone, born>>

\* The text of a document on stdout.
DocText(doc) ==
    CASE doc.kind = "empty" -> <<>>
      [] doc.kind = "error" -> <<Text>> \o doc.error
      [] OTHER -> <<Text>>

\* lines 495-511: the exception run_transcription_worker raises for a child
\* that has exited, <<>> when there is none.
WorkerFailure(c) ==
    IF c.returncode # 0
    THEN Truncate(IF c.stderr # <<>> THEN c.stderr
                  ELSE IF DocText(c.stdout) # <<>> THEN DocText(c.stdout)
                  ELSE <<Text>>, 500)
    ELSE CASE c.stdout.kind \in {"empty", "garbage"}
                -> <<Text>> \o Truncate(DocText(c.stdout), 200)
           [] c.stdout.kind = "error" -> c.stdout.error
           [] c.stdout.kind = "other" -> <<Text>>
           [] OTHER -> <<>>

\* lines 489-531: the job thread takes the child's exit code and output.
CollectJob ==
    /\ call.kind = "job"
    /\ child.pc = "exited"
    /\ child' = [child EXCEPT !.pc = "collected"]
    /\ IF child.returncode = 0 /\ child.stdout.kind = "success"
       THEN /\ jobs' = [jobs EXCEPT ![nextId] =
                          SetField(SetField(SetField(@, "status", "completed"),
                                            "progress", "Done!"),
                                   "result", child.stdout.result)]
            /\ UNCHANGED reply
       ELSE Failed(WorkerFailure(child))
    /\ UNCHANGED <<call, policyVars, laterVars>>
    /\ UNCHANGED <<thread, cache, now, nticks, nextId, uploads, lastReap, fetchDone, born>>

\* lines 699-721: add_realtime_chunk takes the child's exit code and output.
CollectChunk ==
    /\ call.kind = "chunk"
    /\ child.pc = "exited"
    /\ child' = [child EXCEPT !.pc = "collected"]
    /\ IF child.returncode = 0 /\ child.stdout.kind \in {"empty", "garbage"}
       THEN reply' = [status |-> "error", transcript |-> "", error |-> <<Text>>]
       ELSE IF child.returncode = 0 /\ child.stdout.kind = "success"
       THEN reply' = [status |-> "ok", transcript |-> "words", error |-> <<>>]
       ELSE reply' = [status |-> "ok", transcript |-> "", error |-> <<>>]
    /\ UNCHANGED <<call, jobVars, policyVars, laterVars>>

DispatchNext ==
    \/ \E tok \in Credentials \cup {None} : SubmitJob(tok)
    \/ SubmitChunk
    \/ \E tok \in Credentials \cup {None} : RunByHand(tok)
    \/ Launch
    \/ LaunchFails
    \/ DispatchTimeout
    \/ worker_main
    \/ \E ok \in BOOLEAN, diag \in Diagnostics : Recognize(ok, diag)
    \/ Diarize
    \/ \E how \in Breakdowns, diag \in Diagnostics : WorkerBreaks(how, diag)
    \/ CollectJob
    \/ CollectChunk

DispatchSpec == Init /\ [][DispatchNext]_vars

\* ------------------------------------------------------- realtime sessions
\* Handlers of lines 631-745.  start_realtime and stop_realtime have no await
\* and run atomically; add_realtime_chunk awaits chunk.read() once, after its
\* two checks, and from there runs to its return without another await
\* (subprocess.run blocks the event loop).  `session` holds the dict objects
\* by id: a handler keeps its object when the key has left the dict.

\* Values of the `model` form field a session is opened with; "turbo" is not
\* in model_timeouts.
RealtimeModels == {"tiny", "turbo"}

\* What result.full_text of a chunk can be.
Texts == {"", "hi", "there"}

\* Ids a request may name: 0 is an id uuid4 never issued.
AskedSids == 0..MaxSessions

model_timeouts ==
    ("tiny" :> 60) @@ ("tiny.en" :> 60) @@ ("base" :> 120) @@ ("base.en" :> 120)
    @@ ("small" :> 180) @@ ("small.en" :> 180) @@ ("medium" :> 300)
    @@ ("medium.en" :> 300) @@ ("large" :> 600) @@ ("large-v2" :> 600)
    @@ ("large-v3" :> 600)

chunk_timeout(m) == GetField(model_timeouts, m, 120)

NewSession(m, t) ==
    [model |-> m, chunks |-> <<>>, transcripts |-> <<>>, status |-> "active",
     created |-> t]

Respond(op, sid, code, body) ==
    response' = [op |-> op, sid |-> sid, code |-> code, body |-> body]

\* sep.join(ts)
RECURSIVE Join(_, _)
Join(sep, ts) ==
    IF ts = <<>> THEN ""
    ELSE IF Len(ts) = 1 THEN ts[1]
    ELSE ts[1] \o sep \o Join(sep, Tail(ts))

start_realtime(m) ==
    LET kept == cleanup_old_jobs(jobs, now) IN
    /\ nextSid <= MaxSessions
    /\ jobs' = kept
    /\ born' = Without(born, DOMAIN jobs \ DOMAIN kept)
    /\ lastReap' = DOMAIN jobs \ DOMAIN kept
    /\ session' = SetField(session, nextSid, NewSession(m, now))
    /\ realtime_sessions' = realtime_sessions \cup {nextSid}
    /\ nextSid' = nextSid + 1
    /\ Respond("start", nextSid, 200, [session_id |-> nextSid, status |-> "active"])
    /\ UNCHANGED <<thread, cache, now, nticks, nextId, uploads, fetchDone, reading,
                   nchunks, result, dispatched, policyVars, dispatchVars,
                   assemblyVars>>

\* The two checks of lines 654-659: the HTTP status they raise, or 0.
Rejection_NoStatusCheck(sid) ==
    IF sid \notin realtime_sessions THEN 404 ELSE 0

Rejection(sid) ==
    IF sid \notin realtime_sessions THEN 404
    ELSE IF session[sid].status # "active" THEN 400
    ELSE 0

RejectionDetail(code) == IF code = 404 THEN "Session not found" ELSE "Session not active"

\* add_realtime_chunk up to `await chunk.read()`.
add_realtime_chunk(sid) ==
    /\ IF Rejection(sid) # 0
       THEN /\ Respond("chunk", sid, Rejection(sid),
                       [detail |-> RejectionDetail(Rejection(sid))])
            /\ UNCHANGED <<reading, nchunks>>
       ELSE /\ nchunks < MaxChunks
            /\ reading' = [reading EXCEPT ![sid] = @ + 1]
            /\ nchunks' = nchunks + 1
            /\ UNCHANGED response
    /\ UNCHANGED <<realtime_sessions, session, nextSid, result, dispatched, jobVars,
                   policyVars, dispatchVars, assemblyVars>>

\* After chunk.read(): the chunk is above MAX_CHUNK_SIZE, lines 664-665.
ChunkTooLarge(sid) ==
    /\ reading[sid] > 0
    /\ reading' = [reading EXCEPT ![sid] = @ - 1]
    /\ Respond("chunk", sid, 413, [detail |-> "Chunk too large"])
    /\ UNCHANGED <<realtime_sessions, session, nextSid, nchunks, result, dispatched,
                   jobVars, policyVars, dispatchVars, assemblyVars>>

Completed(rc, doc) == [kind |-> "completed", returncode |-> rc, stdout |-> doc]

\* What the worker can leave on stdout: a document with a result, a JSON
\* document without one, or text that is not JSON.
Outputs ==
    {[kind |-> "result", full_text |-> t] : t \in Texts}
    \cup {[kind |-> "noresult", full_text |-> ""], [kind |-> "garbage", full_text |-> ""]}

\* How subprocess.run can end: the worker exits, the deadline passes
\* (TimeoutExpired), or the process cannot be started (OSError).
Runs ==
    {Completed(0, d) : d \in Outputs}
    \cup {Completed(1, [kind |-> "error", full_text |-> ""]),
          [kind |-> "timeout", returncode |-> 0, stdout |-> NoOutput],
          [kind |-> "raised", returncode |-> 0, stdout |-> NoOutput]}

\* session['transcripts'].append(transcript), line 705
AppendTranscript_InFront(ts, t) == <<t>> \o ts

AppendTranscript(ts, t) == Append(ts, t)

\* The body add_realtime_chunk answers a run with, lines 701-721.
ChunkBody(run, m, ts) ==
    CASE run.kind = "timeout" ->
            [status |-> "error",
             error |-> "Chunk timeout after " \o ToString(chunk_timeout(m))
                       \o "s - try a faster model"]
      [] run.kind = "raised" ->
            [status |-> "error", error |-> "[Errno 2] No such file or directory"]
      [] run.kind = "completed" /\ run.returncode = 0 /\ run.stdout.kind = "garbage" ->
            [status |-> "error", error |-> "Expecting value: line 1 column 1 (char 0)"]
      [] run.kind = "completed" /\ run.returncode = 0 /\ run.stdout.kind = "result" ->
            [status |-> "ok", transcript |-> run.stdout.full_text, all_transcripts |-> ts]
      [] OTHER ->
            [status |-> "ok", transcript |-> "", all_transcripts |-> ts]

\* add_realtime_chunk from chunk.read() to its return, lines 666-721.
ChunkTranscribe(sid, run) ==
    LET appends == run.kind = "completed" /\ run.returncode = 0
                   /\ run.stdout.kind = "result"
        ts == IF appends
              THEN AppendTranscript(session[sid].transcripts, run.stdout.full_text)
              ELSE session[sid].transcripts
    IN
    /\ reading[sid] > 0
    /\ reading' = [reading EXCEPT ![sid] = @ - 1]
    /\ result' = run
    /\ dispatched' = dispatched + 1
    /\ session' = [session EXCEPT ![sid].transcripts = ts]
    /\ Respond("chunk", sid, 200, ChunkBody(run, session[sid].model, ts))
    /\ UNCHANGED <<realtime_sessions, nextSid, nchunks, jobVars, policyVars,
                   dispatchVars, assemblyVars>>

\* now - realtime_sessions[sid].get('created', 0) > 3600, line 738
Expired_OnlyStopped(s, t) ==
    s.status = "stopped" /\ t - GetField(s, "created", 0) > SESSION_MAX_AGE

Expired(s, t) == t - GetField(s, "created", 0) > SESSION_MAX_AGE

\* session['status'] = 'stopped', line 731
MarkStopped_Forgets(s) == s

MarkStopped(s) == [s EXCEPT !.status = "stopped"]

stop_realtime(sid) ==
    IF sid \notin realtime_sessions
    THEN /\ Respond("stop", sid, 404, [detail |-> "Session not found"])
         /\ UNCHANGED <<realtime_sessions, session, nextSid, reading, nchunks, result,
                        dispatched, jobVars, policyVars, dispatchVars, assemblyVars>>
    ELSE LET stopped == [session EXCEPT ![sid] = MarkStopped(@)] IN
         /\ session' = stopped
         /\ realtime_sessions' = {s \in realtime_sessions : ~Expired(stopped[s], now)}
         /\ Respond("stop", sid, 200,
                    [status |-> "stopped",
                     full_transcript |-> Join(" ", stopped[sid].transcripts),
                     segments |-> stopped[sid].transcripts])
         /\ UNCHANGED <<nextSid, reading, nchunks, result, dispatched, jobVars,
                        policyVars, dispatchVars, assemblyVars>>

\* Clock advances that put a session at the retention window and just past it.
SessionTicks == {SESSION_MAX_AGE, SESSION_MAX_AGE + 1}

RealtimeNext ==
    \/ \E m \in RealtimeModels : start_realtime(m)
    \/ \E sid \in AskedSids : add_realtime_chunk(sid)
    \/ \E sid \in Sids : ChunkTooLarge(sid)
    \/ \E sid \in Sids, run \in Runs : ChunkTranscribe(sid, run)
    \/ \E sid \in AskedSids : stop_realtime(sid)
    \/ \E d \in SessionTicks : Tick(d)

RealtimeSpec == Init /\ [][RealtimeNext]_vars

\* ------------------------------------------------------ transcript assembly
\* The pure functions of worker.py 39-155 and the server's timestamp renderer.
\* Times are floats in the source; here a time is a whole number of
\* 1/Resolution seconds, so that a start can fall between two whole seconds.
Resolution == 2

\* Segments the recognition engine returns for one audio, and turns the
\* diarization engine returns.
MaxSegments == 3
MaxTurns == 2
\* Latest start rendered as a timestamp, in 1/Resolution s: past ten hours.
MaxStart == 72100

TimePoints == {0, 2, 4, 6, 10}
Speakers == {"SPEAKER_00", "SPEAKER_01"}

\* The text of the i-th segment, as the engine gives it: with a leading blank.
Words(i) == CASE i = 1 -> " hi" [] i = 2 -> " there" [] i = 3 -> " bye" [] OTHER -> " again"

\* str.strip() on the texts above
strip(text) ==
    CASE text = " hi" -> "hi" [] text = " there" -> "there" [] text = " bye" -> "bye"
      [] text = " again" -> "again" [] OTHER -> text

\* Segment lists: n segments between n + 1 cuts in time order.  assign_speakers
\* treats every segment on its own, so gaps and overlaps between segments add
\* no case; a segment may be empty (start = end).
Cuts(n) == {c \in [1..(n + 1) -> TimePoints] : \A i \in 1..n : c[i] <= c[i + 1]}

SegmentsAt(c) ==
    [i \in 1..(Len(c) - 1) |-> [start |-> c[i], end |-> c[i + 1], text |-> Words(i)]]

SegmentLists == {<<>>} \cup UNION {{SegmentsAt(c) : c \in Cuts(n)} : n \in 1..MaxSegments}

Turns == {[start |-> a, end |-> b, speaker |-> spk] :
            a \in TimePoints, b \in {t \in TimePoints : t >= 0}, spk \in Speakers}

TurnLists == UNION {[1..n -> {t \in Turns : t.start <= t.end}] : n \in 0..MaxTurns}

Pad2(n) == IF n < 10 THEN "0" \o ToString(n) ELSE ToString(n)

\* worker.py 39-46
format_timestamp(sec) ==
    LET hours == sec \div (3600 * Resolution)
        minutes == (sec % (3600 * Resolution)) \div (60 * Resolution)
        secs == (sec % (60 * Resolution)) \div Resolution
    IN  IF hours > 0
        THEN Pad2(hours) \o ":" \o Pad2(minutes) \o ":" \o Pad2(secs)
        ELSE Pad2(minutes) \o ":" \o Pad2(secs)

\* server.py 343-352
format_transcript_timestamp(sec) ==
    LET total_seconds == sec \div Resolution
        hours == total_seconds \div 3600
        minutes == (total_seconds % 3600) \div 60
        secs == total_seconds % 60
    IN  IF hours > 0
        THEN ToString(hours) \o ":" \o Pad2(minutes) \o ":" \o Pad2(secs)
        ELSE Pad2(minutes) \o ":" \o Pad2(secs)

\* `overlap > best_overlap`, line 66
Better_OrEqual(overlap, best_overlap) == overlap >= best_overlap

Better(overlap, best_overlap) == overlap > best_overlap

\* The first loop of assign_speakers, lines 61-68, from `best` on.
RECURSIVE BestOverlap(_, _, _)
BestOverlap(w, ds, best) ==
    IF ds = <<>> THEN best
    ELSE LET d == Head(ds)
             overlap_start == Max(w.start, d.start)
             overlap_end == Min(w.end, d.end)
             overlap == Max(0, overlap_end - overlap_start)
         IN  BestOverlap(w, Tail(ds),
                         IF Better(overlap, best.best_overlap)
                         THEN [best_speaker |-> d.speaker, best_overlap |-> overlap]
                         ELSE best)

\* d_seg['start'] <= w_mid <= d_seg['end'], line 72, with w_mid = (start + end) / 2
Contains_Open(d, w) ==
    2 * d.start < w.start + w.end /\ w.start + w.end < 2 * d.end

Contains(d, w) ==
    2 * d.start <= w.start + w.end /\ w.start + w.end <= 2 * d.end

\* The second loop, lines 71-74.
RECURSIVE MidpointTurn(_, _, _)
MidpointTurn(w, ds, best_speaker) ==
    IF ds = <<>> THEN best_speaker
    ELSE IF Contains(Head(ds), w) THEN Head(ds).speaker
    ELSE MidpointTurn(w, Tail(ds), best_speaker)

assign_speakers(ws, ds) ==
    [i \in DOMAIN ws |->
        LET w == ws[i]
            best == BestOverlap(w, ds, [best_speaker |-> "UNKNOWN", best_overlap |-> 0])
        IN  [start |-> w.start, end |-> w.end, text |-> strip(w.text),
             speaker |-> IF best.best_overlap = 0
                         THEN MidpointTurn(w, ds, best.best_speaker)
                         ELSE best.best_speaker]]

Range(f) == {f[i] : i \in DOMAIN f}

\* The loop of create_speaker_mapping, lines 88-91.
RECURSIVE SpeakersSeen(_, _)
SpeakersSeen(segments, speakers_seen) ==
    IF segments = <<>> THEN speakers_seen
    ELSE SpeakersSeen(Tail(segments),
                      IF Head(segments).speaker \in Range(speakers_seen)
                      THEN speakers_seen
                      ELSE Append(speakers_seen, Head(segments).speaker))

\* f"Speaker {i+1}" for the speaker at place n = i + 1 of speakers_seen
DisplayLabel_ZeroBased(n) == "Speaker " \o ToString(n - 1)

DisplayLabel(n) == "Speaker " \o ToString(n)

create_speaker_mapping(segments) ==
    LET speakers_seen == SpeakersSeen(segments, <<>>) IN
    [spk \in Range(speakers_seen) |->
        DisplayLabel(CHOOSE n \in DOMAIN speakers_seen : speakers_seen[n] = spk)]

NoGroup == [grouped |-> <<>>, current_speaker |-> None, current_text |-> <<>>,
            current_start |-> 0, current_end |-> 0]

\* The turn format_transcript appends at lines 111-117 and 127-133.
Flush(g) ==
    IF g.current_speaker \notin {None, ""} /\ g.current_text # <<>>
    THEN Append(g.grouped,
                [timestamp |-> format_timestamp(g.current_start),
                 speaker |-> g.current_speaker,
                 text |-> Join(" ", g.current_text),
                 start |-> g.current_start,
                 end |-> g.current_end])
    ELSE g.grouped

\* `speaker != current_speaker`, line 109
LabelChanges_Always(speaker, current_speaker) == TRUE

LabelChanges(speaker, current_speaker) == speaker # current_speaker

\* The loop of format_transcript, lines 106-124.
RECURSIVE Group(_, _, _)
Group(segments, speaker_map, g) ==
    IF segments = <<>> THEN g
    ELSE LET seg == Head(segments)
             speaker == GetField(speaker_map, seg.speaker, seg.speaker)
         IN  Group(Tail(segments), speaker_map,
                   IF LabelChanges(speaker, g.current_speaker)
                   THEN [grouped |-> Flush(g), current_speaker |-> speaker,
                         current_text |-> <<seg.text>>, current_start |-> seg.start,
                         current_end |-> seg.end]
                   ELSE [g EXCEPT !.current_text = Append(@, seg.text),
                                  !.current_end = seg.end])

format_transcript(segments, with_speakers) ==
    IF with_speakers
    THEN LET speaker_map == create_speaker_mapping(segments)
             grouped == Flush(Group(segments, speaker_map, NoGroup))
         IN  [speakers |-> Range(speaker_map),
              segments |-> grouped,
              full_text |->
                Join("\n\n", [i \in DOMAIN grouped |->
                                "[" \o grouped[i].timestamp \o "] "
                                \o grouped[i].speaker \o ":\n" \o grouped[i].text])]
    ELSE [segments |->
            [i \in DOMAIN segments |->
                [timestamp |-> format_timestamp(segments[i].start),
                 text |-> strip(segments[i].text),
                 start |-> segments[i].start,
                 end |-> segments[i].end]],
          full_text |-> Join(" ", [i \in DOMAIN segments |-> strip(segments[i].text)])]

\* run_transcription, line 235
AssignSpeakers ==
    /\ combined = NotAssigned
    /\ formatted = NoTranscript
    /\ combined' = assign_speakers(whisper_segments, diarization_segments)
    /\ UNCHANGED <<whisper_segments, diarization_segments, formatted, seconds, stamp,
                   jobVars, policyVars, dispatchVars, realtimeVars>>

\* line 236
FormatWithSpeakers ==
    /\ combined # NotAssigned
    /\ formatted = NoTranscript
    /\ formatted' = format_transcript(combined, TRUE)
    /\ UNCHANGED <<whisper_segments, diarization_segments, combined, seconds, stamp,
                   jobVars, policyVars, dispatchVars, realtimeVars>>

\* lines 244 and 248: diarization failed or was not asked for
FormatPlain ==
    /\ combined = NotAssigned
    /\ formatted = NoTranscript
    /\ formatted' = format_transcript(whisper_segments, FALSE)
    /\ UNCHANGED <<whisper_segments, diarization_segments, combined, seconds, stamp,
                   jobVars, policyVars, dispatchVars, realtimeVars>>

AssemblyInit ==
    /\ JobsIdle
    /\ PolicyIdle
    /\ DispatchIdle
    /\ RealtimeIdle
    /\ whisper_segments \in SegmentLists
    /\ diarization_segments \in TurnLists
    /\ combined = NotAssigned
    /\ formatted = NoTranscript
    /\ seconds = 0
    /\ stamp = NoStamp

AssemblyNext == AssignSpeakers \/ FormatWithSpeakers \/ FormatPlain

AssemblySpec == AssemblyInit /\ [][AssemblyNext]_vars

\* Both renderers are given the same start.
Render ==
    /\ stamp = NoStamp
    /\ stamp' = [worker |-> format_timestamp(seconds),
                 server |-> format_transcript_timestamp(seconds)]
    /\ UNCHANGED <<whisper_segments, diarization_segments, combined, formatted,
                   seconds, jobVars, policyVars, dispatchVars, realtimeVars>>

TimestampInit ==
    /\ JobsIdle
    /\ PolicyIdle
    /\ DispatchIdle
    /\ RealtimeIdle
    /\ whisper_segments = <<>>
    /\ diarization_segments = <<>>
    /\ combined = NotAssigned
    /\ formatted = NoTranscript
    /\ seconds \in 0..MaxStart
    /\ stamp = NoStamp

TimestampNext == Render

TimestampSpec == TimestampInit /\ [][TimestampNext]_vars

\* ------------------------------------------------------------------- claims
Rank(s) == CASE s = "queued" -> 0
             [] s = "downloading" -> 1
             [] s = "processing" -> 2
             [] s \in Terminal -> 3

Age(j) == now - born[j]

\* A step of a handler that runs cleanup_old_jobs().
ReapStep == TranscribeFileCheck \/ \E u \in Locators : TranscribeUrl(u)

\* C1: every submitted job reaches a terminal status whatever the download tool
\* and the worker do.  Stated on finite runs: a job that is not terminal always
\* has a thread that can take a step of its own, so it never waits without a
\* deadline on a process that may stay silent for ever.
C1_JobNeverBlocked ==
    \A j \in DOMAIN jobs : jobs[j].status \notin Terminal => ENABLED ThreadStep(j)

\* C2: once the worker child has exceeded the deadline, the child is killed,
\* nothing it wrote is stored as the job's result, the thread goes on through
\* the timeout handler, and when the handler is through the job (if its record
\* is still there) has status error and a non-empty error message.
C2_WorkerTimeoutEndsInError ==
    \A j \in Ids : thread[j].out = "timeout" =>
        /\ thread[j].child = "killed"
        /\ thread[j].pc \in {"w_to1", "w_to2", "u_ex1", "done", "crashed"}
        /\ thread[j].pc \notin {"done", "crashed"} => ENABLED ThreadStep(j)
        /\ Has(j) => "result" \notin DOMAIN jobs[j]
        /\ (Has(j) /\ thread[j].pc = "done") =>
              /\ jobs[j].status = "error"
              /\ "error" \in DOMAIN jobs[j]
              /\ jobs[j].error # ""

C2_Witness ==
    \E j \in Ids : /\ thread[j].out = "timeout"
                   /\ thread[j].pc = "done"
                   /\ Has(j)
                   /\ jobs[j].status = "error"

\* C3: a record's status never moves to an earlier value of the order
\* queued < downloading < processing < {completed, error}; only URL jobs are
\* ever downloading; and a record appears once per id: with a fresh id, queued.
C3_StatusOnlyForward ==
    [][/\ \A j \in DOMAIN jobs \cap DOMAIN jobs' :
             /\ Rank(jobs'[j].status) >= Rank(jobs[j].status)
             /\ jobs'[j].status = "downloading" => thread[j].kind = "url"
       /\ \A j \in DOMAIN jobs' \ DOMAIN jobs :
             /\ j = nextId
             /\ nextId' = nextId + 1
             /\ jobs'[j].status = "queued"]_vars

C3_Witness ==
    \E j \in DOMAIN jobs : /\ thread[j].kind = "url"
                           /\ thread[j].pc = "done"
                           /\ jobs[j].status = "completed"

\* C4: the registry never holds more records than the ceiling.
C4_NeverAboveCeiling == Cardinality(DOMAIN jobs) <= MAX_JOBS

\* C5: right after reap() has run, no record is left whose status is completed
\* or error and whose age exceeds the retention window.
C5_ReapRemovesOldTerminal ==
    [][ReapStep =>
         \A j \in DOMAIN jobs' :
             ~(jobs'[j].status \in Terminal /\ now' - born'[j] > MAX_JOB_AGE)]_vars

\* C6: reap() leaves every record that is queued, downloading or processing,
\* and every terminal record whose age is within the retention window, in the
\* registry and unchanged.
C6_ReapKeepsTheRest ==
    [][ReapStep =>
         \A j \in DOMAIN jobs :
             (jobs[j].status \notin Terminal \/ Age(j) <= MAX_JOB_AGE)
                 => (j \in DOMAIN jobs' /\ jobs'[j] = jobs[j])]_vars

C6_Witness ==
    /\ lastReap # {}
    /\ \E j \in DOMAIN jobs : jobs[j].status \notin Terminal /\ Age(j) > MAX_JOB_AGE

\* C7: no exception ever leaves a job thread.
C7_NoExceptionEscapes == \A j \in Ids : thread[j].pc # "crashed"

\* C8: whatever get(id) returns, a status completed comes with the result and
\* a status error with a non-empty error message.
C8_ReadersSeeWholeUpdates ==
    \A j \in Ids :
        LET r == get_job_status(j) IN
        r.code = 200 =>
            /\ r.body.status = "completed" => "result" \in DOMAIN r.body
            /\ r.body.status = "error" =>
                  ("error" \in DOMAIN r.body /\ r.body.error # "")

\* C9: a resolve() call made less than the TTL after a fetch of the same
\* locator completed does not launch the download tool.
C9_OneFetchPerTTL ==
    \A j \in Ids : ~(thread[j].refetch /\ thread[j].tool # "none")

\* C10: a resolve() call that found a cached file older than the TTL and
\* fetched it again leaves the cache entry with an age below the TTL.
C10_FetchRefreshesMtime ==
    [][\A j \in Ids :
          (thread[j].pc = "dl_copy" /\ thread[j].miss = "stale" /\ thread'[j].pc = "w_start")
              => LET p == get_cache_path(thread[j].url) IN
                 p \in DOMAIN cache' /\ now' - cache'[p] < CACHE_MAX_AGE]_vars

\* C11: for every duration d >= 0 and every model name, known or not,
\* calculate_timeout(d, m) lies in [300, 14400], and for a fixed model it does
\* not decrease when d grows.
C11_TimeoutInRangeAndMonotone ==
    /\ [](plan # NoPlan => (plan.timeout >= 300 /\ plan.timeout <= 14400))
    /\ [][(plan # NoPlan /\ model' = model /\ duration_seconds' >= duration_seconds)
             => plan'.timeout >= plan.timeout]_vars

C11_Witness ==
    /\ plan # NoPlan
    /\ model = "large"
    /\ duration_seconds = MaxDuration
    /\ plan.timeout = 14400

\* The speed the claim names for m: the table's value, the balanced model's
\* (16) for a name the table does not have.
ClaimedSpeed(m) == IF m \in DOMAIN MODEL_SPEEDS THEN MODEL_SPEEDS[m] ELSE 16

\* t is clamp(d / speed * 1.5 + 180, 300, 14400) cut to whole seconds, with
\* d / speed * 1.5 + 180 written as the fraction num / den.
IsClampedWhole(t, num, den) ==
    IF num < 300 * den THEN t = 300
    ELSE IF num > 14400 * den THEN t = 14400
    ELSE t * den <= num /\ num < (t + 1) * den

\* C12: calculate_timeout(d, m) is clamp(d / speed(m) * 1.5 + 180, 300, 14400)
\* truncated to whole seconds, speed(m) being the table's value and 16 for an
\* unknown name.
C12_TimeoutIsClampedFormula ==
    plan # NoPlan =>
        /\ MODEL_SPEEDS["base"] = 16
        /\ IsClampedWhole(plan.timeout,
                          3 * duration_seconds + 360 * ClaimedSpeed(model),
                          2 * ClaimedSpeed(model))

C12_Witness ==
    /\ plan # NoPlan
    /\ model = "turbo"
    /\ duration_seconds = MaxDuration
    /\ plan.timeout = 1080

\* C13: for d > 3600 select_optimal_model returns tiny, the fastest model; for
\* 0 <= d <= 1800 it returns base, the balanced one.
C13_SelectByDuration ==
    plan # NoPlan =>
        /\ duration_seconds > 3600 => plan.model = "tiny"
        /\ (0 <= duration_seconds /\ duration_seconds <= 1800) => plan.model = "base"
        /\ \A m \in DOMAIN MODEL_SPEEDS : MODEL_SPEEDS[m] <= MODEL_SPEEDS["tiny"]

C13_Witness ==
    /\ plan # NoPlan
    /\ duration_seconds = 1800
    /\ plan.model = "base"

\* The selection is defined before and after the step, and the later one is
\* not the slower model.
TotalAndNeverSlower ==
    /\ plan.model \in DOMAIN MODEL_SPEEDS
    /\ plan'.model \in DOMAIN MODEL_SPEEDS
    /\ MODEL_SPEEDS[plan'.model] >= MODEL_SPEEDS[plan.model]

\* C14 as claimed: select_optimal_model is total, its result changes across
\* 1800 s and across 3600 s and across no other duration, and it never moves to
\* a slower model as the duration grows.
C14_TwoThresholds ==
    [][AskLonger =>
         /\ TotalAndNeverSlower
         /\ (plan'.model # plan.model) <=> (duration_seconds \in {1800, 3600})]_vars

\* C14 as amended: total, one threshold: the result changes across 1800 s and
\* across no other duration (600 s and 3600 s change nothing), and it never
\* moves to a slower model as the duration grows.
C14_OneThreshold ==
    [][AskLonger =>
         /\ TotalAndNeverSlower
         /\ (plan'.model # plan.model) <=> (duration_seconds = 1800)]_vars

C14_Witness ==
    /\ plan # NoPlan
    /\ duration_seconds = 3601
    /\ plan.model = "tiny"

\* The child the server launched for the call in progress, once it has started.
ServerChild ==
    /\ call.kind \in {"job", "chunk"}
    /\ child.pc \notin {"none", "notstarted"}

\* C15: no worker the server launches, for a job or for a realtime chunk, has
\* the credential among its command-line arguments; a credential that was
\* supplied is in the child's environment, and only there.
C15_CredentialOnlyInEnv ==
    ServerChild =>
        /\ \A i \in DOMAIN child.argv : child.argv[i] \notin Credentials
        /\ call.hf_token # None =>
              /\ "HF_TOKEN" \in DOMAIN child.env
              /\ child.env["HF_TOKEN"] = call.hf_token

C15_Witness ==
    /\ ServerChild
    /\ call.kind = "job"
    /\ call.hf_token \in Credentials
    /\ child.pc = "recognize"

\* C16: the worker of a job submitted with a credential runs with that
\* credential, taken from the environment the dispatcher set, so the job's
\* result has diarization status success or failed, never skipped.
C16_WorkerGetsCredential ==
    (ServerChild /\ call.kind = "job" /\ call.hf_token # None) =>
        /\ child.pc \in {"recognize", "diarize", "exited", "collected"}
              => child.hf_token = call.hf_token
        /\ (Has(nextId) /\ jobs[nextId].status = "completed")
              => jobs[nextId].result.diarization_status \in {"success", "failed"}

Sanitized(msg) ==
    /\ MsgLen(msg) <= 500
    /\ \A i \in DOMAIN msg : msg[i].kind \notin {"path", "rootpath", "token"}

\* The worker has ended otherwise than with exit code 0 and a success document.
WorkerFailed ==
    /\ child.pc = "collected"
    /\ (child.returncode # 0 \/ child.stdout.kind # "success")

\* C18: a worker that exits non-zero, writes nothing, or writes something that
\* is no success document gives an error outcome; and every error message in
\* a job record or returned by add_realtime_chunk is at most 500 characters,
\* with absolute paths and credential-shaped strings replaced by placeholders.
C18_FailuresSurfaceSanitized ==
    /\ \A j \in DOMAIN jobs :
          jobs[j].status = "error" =>
              ("error" \in DOMAIN jobs[j] /\ Sanitized(jobs[j].error))
    /\ reply.status = "error" => Sanitized(reply.error)
    /\ (WorkerFailed /\ call.kind = "job") => jobs[nextId].status = "error"
    /\ (WorkerFailed /\ call.kind = "chunk") => reply.status = "error"

\* Field f of record r does not hold the credential tok (in an error message:
\* no credential-shaped string in full).
FieldFreeOf(r, f, tok) ==
    CASE f = "error" -> \A i \in DOMAIN r.error : r.error[i] # TokenText
      [] f = "result" -> r.result.diarization_error # tok
      [] OTHER -> r[f] # tok

\* C19: no field of a record that get(id) returns holds the credential the
\* job was submitted with: the record never stores it, and error text is
\* sanitized before it is stored.
C19_RecordNeverHoldsCredential ==
    \A j \in Ids :
        LET r == get_job_status(j) IN
        (r.code = 200 /\ call.hf_token # None) =>
            \A f \in DOMAIN r.body : FieldFreeOf(r.body, f, call.hf_token)

C19_Witness ==
    /\ call.kind = "job"
    /\ call.hf_token \in Credentials
    /\ Has(nextId)
    /\ jobs[nextId].status = "error"
    /\ \E i \in DOMAIN jobs[nextId].error : jobs[nextId].error[i].kind = "<redacted>"

\* C20: in a URL job the worker child is launched only by the step that
\* follows the acquisition's return of a path, the job is marked completed
\* only after the child has exited, and a thread whose acquisition failed
\* never launches a child.
C20_StagesInOrder ==
    [][\A j \in Ids :
          thread[j].kind = "url" =>
              /\ (thread[j].child = "none" /\ thread'[j].child # "none") =>
                    /\ thread[j].pc = "w_start"
                    /\ thread[j].audio \in {"cache", "temp"}
              /\ (/\ j \in DOMAIN jobs /\ j \in DOMAIN jobs'
                  /\ jobs[j].status # "completed"
                  /\ jobs'[j].status = "completed") => thread[j].child = "exited"
              /\ (thread[j].pc \in {"u_ex1", "u_ex2"} /\ thread[j].child = "none")
                    => thread'[j].child = "none"]_vars

C20_Witness ==
    \E j \in DOMAIN jobs : /\ thread[j].kind = "url"
                           /\ thread[j].child = "exited"
                           /\ thread[j].pc = "w_done2"
                           /\ jobs[j].status = "completed"

\* What a step leaves of the sessions when it rejects a request.
SessionsUntouched ==
    UNCHANGED <<realtime_sessions, session, reading, nchunks, result, dispatched>>

\* C21: a chunk request naming an id that is not in the session dict is
\* answered 404, one naming a session that is not active is answered 400;
\* neither starts a worker or changes anything of any session.  Only a request
\* on a known, active session gets past the checks, and a worker is started
\* only for a request that got past them.
C21_ChunkRejected ==
    [][/\ \A sid \in AskedSids :
            add_realtime_chunk(sid) =>
                /\ sid \notin realtime_sessions =>
                        /\ response' = [op |-> "chunk", sid |-> sid, code |-> 404,
                                        body |-> [detail |-> "Session not found"]]
                        /\ SessionsUntouched
                /\ (sid \in realtime_sessions /\ session[sid].status # "active") =>
                        /\ response' = [op |-> "chunk", sid |-> sid, code |-> 400,
                                        body |-> [detail |-> "Session not active"]]
                        /\ SessionsUntouched
       /\ \A sid \in Sids :
            reading'[sid] > reading[sid] =>
                sid \in realtime_sessions /\ session[sid].status = "active"
       /\ dispatched' # dispatched =>
            \E sid \in Sids : reading[sid] > 0 /\ reading'[sid] = reading[sid] - 1
      ]_vars

\* A chunk for a stopped session has just been refused, after an earlier chunk
\* of that session went to a worker.
C21_Witness ==
    /\ response.op = "chunk"
    /\ response.code = 400
    /\ response.sid \in realtime_sessions
    /\ session[response.sid].status = "stopped"
    /\ dispatched > 0

IsPrefix(a, b) == Len(a) <= Len(b) /\ SubSeq(b, 1, Len(a)) = a

\* The worker of the step just taken exited 0 and printed a result.
ChunkSucceeds ==
    /\ dispatched' = dispatched + 1
    /\ result'.kind = "completed"
    /\ result'.returncode = 0
    /\ result'.stdout.kind = "result"

\* C22: a chunk whose worker gave a result puts that text, and nothing else,
\* at the end of its session's sequence and answers with the text and the whole
\* sequence; no other step changes a sequence, so every sequence only grows at
\* its end.
C22_AppendOnly ==
    [][/\ \A s \in DOMAIN session :
            /\ s \in DOMAIN session'
            /\ IsPrefix(session[s].transcripts, session'[s].transcripts)
            /\ session'[s].transcripts # session[s].transcripts =>
                    ChunkSucceeds /\ response'.sid = s
       /\ ChunkSucceeds =>
            LET sid == response'.sid
                text == result'.stdout.full_text
            IN  /\ session'[sid].transcripts = Append(session[sid].transcripts, text)
                /\ response'.op = "chunk"
                /\ response'.code = 200
                /\ response'.body = [status |-> "ok", transcript |-> text,
                                     all_transcripts |-> session'[sid].transcripts]
      ]_vars

\* The second chunk of a session has been answered, with a text other than the
\* first.
C22_Witness ==
    /\ response.op = "chunk"
    /\ response.code = 200
    /\ response.body.status = "ok"
    /\ Len(response.body.all_transcripts) = 2
    /\ response.body.all_transcripts[1] # response.body.all_transcripts[2]
    /\ response.body.transcript = response.body.all_transcripts[2]

\* The worker of the step just taken did not deliver: deadline passed, could
\* not be started, exited non-zero, or printed something that is not JSON.
ChunkFails ==
    /\ dispatched' = dispatched + 1
    /\ \/ result'.kind \in {"timeout", "raised"}
       \/ result'.kind = "completed" /\ result'.returncode # 0
       \/ result'.kind = "completed" /\ result'.stdout.kind = "garbage"

\* C23: a chunk whose worker did not deliver is answered with an error marker
\* and no text, and leaves every session as it was.
C23_ChunkFailureIsMarked ==
    [][ChunkFails =>
            /\ response'.op = "chunk"
            /\ response'.body.status = "error"
            /\ "error" \in DOMAIN response'.body
            /\ GetField(response'.body, "transcript", "") = ""
            /\ UNCHANGED <<realtime_sessions, session>>
      ]_vars

\* ' '.join, told from the last element.
RECURSIVE SpaceJoined(_)
SpaceJoined(ts) ==
    IF ts = <<>> THEN ""
    ELSE IF Len(ts) = 1 THEN ts[1]
    ELSE SpaceJoined(SubSeq(ts, 1, Len(ts) - 1)) \o " " \o ts[Len(ts)]

\* C24: stop on a session in the dict marks it stopped and answers with the
\* space-joined texts and the sequence itself; stop on any other id is answered
\* 404 and changes nothing; no step makes a stopped session active again.
C24_StopMarksAndReturns ==
    [][/\ \A sid \in AskedSids :
            stop_realtime(sid) =>
                IF sid \in realtime_sessions
                THEN /\ session'[sid].status = "stopped"
                     /\ response' =
                            [op |-> "stop", sid |-> sid, code |-> 200,
                             body |-> [status |-> "stopped",
                                       full_transcript |->
                                            SpaceJoined(session[sid].transcripts),
                                       segments |-> session[sid].transcripts]]
                ELSE /\ response'.code = 404
                     /\ SessionsUntouched
       /\ \A s \in DOMAIN session :
            session[s].status = "stopped" => session'[s].status = "stopped"
      ]_vars

\* A session with two chunks has been stopped.
C24_Witness ==
    /\ response.op = "stop"
    /\ response.code = 200
    /\ response.body.segments = <<"hi", "there">>
    /\ response.body.full_transcript = "hi there"
    /\ session[response.sid].status = "stopped"

SessionAge(s) == now - session[s].created

\* C25: a stop that is carried out leaves in the dict no session created more
\* than SESSION_MAX_AGE ago, stopped or not, and no step removes a session
\* created less than SESSION_MAX_AGE ago.
C25_StopReapsByAge ==
    [][/\ \A sid \in AskedSids :
            (stop_realtime(sid) /\ sid \in realtime_sessions) =>
                \A s \in realtime_sessions' : ~(SessionAge(s) > SESSION_MAX_AGE)
       /\ \A s \in realtime_sessions \ realtime_sessions' :
            ~(SessionAge(s) < SESSION_MAX_AGE)
      ]_vars

\* A stop has removed a session nobody stopped and kept a younger one.
C25_Witness ==
    /\ response.op = "stop"
    /\ response.code = 200
    /\ realtime_sessions # {}
    /\ \E s \in DOMAIN session :
            s \notin realtime_sessions /\ session[s].status = "active"

\* The length of the intersection of a segment and a turn.
SharedTime(w, d) ==
    LET from == IF w.start >= d.start THEN w.start ELSE d.start
        to == IF w.end <= d.end THEN w.end ELSE d.end
    IN  IF to > from THEN to - from ELSE 0

Overlapped(w) == \E k \in DOMAIN diarization_segments : SharedTime(w, diarization_segments[k]) > 0

\* The place of the first turn that shares the most time with the segment.
FirstLargest(w) ==
    CHOOSE k \in DOMAIN diarization_segments :
        /\ \A j \in DOMAIN diarization_segments :
                SharedTime(w, diarization_segments[j]) <= SharedTime(w, diarization_segments[k])
        /\ \A j \in 1..(k - 1) :
                SharedTime(w, diarization_segments[j]) < SharedTime(w, diarization_segments[k])

\* C26: a segment that shares time with some turn gets the speaker of the
\* turn it shares the most time with, and of the first such turn in the given
\* order when several share the most.
C26_LargestOverlapFirstWins ==
    combined # NotAssigned =>
        \A i \in DOMAIN whisper_segments :
            Overlapped(whisper_segments[i]) =>
                combined[i].speaker =
                    diarization_segments[FirstLargest(whisper_segments[i])].speaker

\* Segment [0,10] with turns A = [0,4], B = [4,10] has been given to B.
C26_Witness ==
    /\ whisper_segments = <<[start |-> 0, end |-> 10, text |-> " hi"]>>
    /\ diarization_segments = <<[start |-> 0, end |-> 4, speaker |-> "SPEAKER_00"],
                                [start |-> 4, end |-> 10, speaker |-> "SPEAKER_01"]>>
    /\ combined # NotAssigned
    /\ combined[1].speaker = "SPEAKER_01"

\* The places of the turns whose closed interval holds the segment's midpoint.
AroundMidpoint(w) ==
    {k \in DOMAIN diarization_segments :
        /\ 2 * diarization_segments[k].start <= w.start + w.end
        /\ w.start + w.end <= 2 * diarization_segments[k].end}

\* C27: a segment that shares time with no turn gets the speaker of the first
\* turn around its midpoint, and "UNKNOWN" exactly when there is none; the
\* output has one entry per segment, in the order of the input.
C27_MidpointFallback ==
    combined # NotAssigned =>
        /\ DOMAIN combined = DOMAIN whisper_segments
        /\ \A i \in DOMAIN whisper_segments :
            LET w == whisper_segments[i]
                around == AroundMidpoint(w)
            IN  /\ combined[i].start = w.start
                /\ combined[i].end = w.end
                /\ combined[i].text = strip(w.text)
                /\ ~Overlapped(w) =>
                        IF around = {}
                        THEN combined[i].speaker = "UNKNOWN"
                        ELSE /\ combined[i].speaker # "UNKNOWN"
                             /\ \E k \in around :
                                    /\ \A j \in around : k <= j
                                    /\ combined[i].speaker = diarization_segments[k].speaker

\* A segment of positive length that shares time with no turn has been given
\* to the second turn, the only one around its midpoint.
C27_Witness ==
    /\ combined # NotAssigned
    /\ Len(diarization_segments) = 2
    /\ diarization_segments[1].speaker # diarization_segments[2].speaker
    /\ \E i \in DOMAIN whisper_segments :
            /\ whisper_segments[i].start < whisper_segments[i].end
            /\ ~Overlapped(whisper_segments[i])
            /\ AroundMidpoint(whisper_segments[i]) = {2}
            /\ combined[i].speaker = diarization_segments[2].speaker

Grouped == formatted # NoTranscript /\ "speakers" \in DOMAIN formatted

\* How many distinct labels have appeared up to the i-th labelled segment.
LabelsUpTo(i) == Cardinality({combined[j].speaker : j \in 1..i})

\* The place of the first segment that carries the label.
FirstWith(label) ==
    CHOOSE i \in DOMAIN combined :
        combined[i].speaker = label /\ \A j \in 1..(i - 1) : combined[j].speaker # label

\* The display label of the i-th labelled segment, by first appearance.
Display(i) == "Speaker " \o ToString(LabelsUpTo(FirstWith(combined[i].speaker)))

\* The places where the display label differs from the one before.
RunStarts == {i \in DOMAIN combined : i = 1 \/ Display(i) # Display(i - 1)}

\* The place where the t-th run starts, and where it ends.
RunFirst(t) == CHOOSE b \in RunStarts : Cardinality({x \in RunStarts : x <= b}) = t

RunLast(t) ==
    IF t = Cardinality(RunStarts) THEN Len(combined) ELSE RunFirst(t + 1) - 1

\* C28: the turns are the maximal runs of segments with one display label, in
\* order: a turn starts where its first segment starts, ends where its last
\* ends, holds their texts joined by blanks; neighbouring turns differ in label.
C28_TurnsAreMaximalRuns ==
    Grouped =>
        /\ Len(formatted.segments) = Cardinality(RunStarts)
        /\ \A t \in DOMAIN formatted.segments :
            LET turn == formatted.segments[t]
                first == RunFirst(t)
                last == RunLast(t)
            IN  /\ turn.speaker = Display(first)
                /\ turn.start = combined[first].start
                /\ turn.end = combined[last].end
                /\ turn.text = SpaceJoined([j \in 1..(last - first + 1) |->
                                                combined[first + j - 1].text])
                /\ t > 1 => turn.speaker # formatted.segments[t - 1].speaker

\* Segments (0,2,hi,A), (2,4,there,A), (4,6,bye,B) have given two turns.
C28_Witness ==
    /\ Grouped
    /\ Len(combined) = 3
    /\ Len(formatted.segments) = 2
    /\ formatted.segments[1].start = 0
    /\ formatted.segments[1].end = 4
    /\ formatted.segments[1].text = "hi there"
    /\ formatted.segments[2].start = 4
    /\ formatted.segments[2].end = 6
    /\ formatted.segments[2].text = "bye"
    /\ formatted.segments[1].speaker = "Speaker 1"
    /\ formatted.segments[2].speaker = "Speaker 2"

\* C29: the k-th distinct label to appear among the labelled segments is
\* mapped to "Speaker k"; different labels get different display labels; every
\* label that occurs, "UNKNOWN" too, is mapped.
C29_FirstSeenOrdinals ==
    Grouped =>
        LET speaker_map == create_speaker_mapping(combined) IN
        /\ DOMAIN speaker_map = {combined[i].speaker : i \in DOMAIN combined}
        /\ \A i \in DOMAIN combined : speaker_map[combined[i].speaker] = Display(i)
        /\ \A a, b \in DOMAIN speaker_map : a # b => speaker_map[a] # speaker_map[b]
        /\ formatted.speakers = {Display(i) : i \in DOMAIN combined}

\* Three labels, "UNKNOWN" among them and not the last to appear, have been
\* mapped.
C29_Witness ==
    /\ Grouped
    /\ formatted.speakers = {"Speaker 1", "Speaker 2", "Speaker 3"}
    /\ \E i \in DOMAIN combined :
            /\ combined[i].speaker = "UNKNOWN"
            /\ create_speaker_mapping(combined)["UNKNOWN"] # "Speaker 3"

TwoDigits(n) == IF n <= 9 THEN "0" \o ToString(n) ELSE ToString(n)

\* "H:MM:SS" from one hour on, "MM:SS" below, of the whole seconds of a start.
Claimed(sec) ==
    LET whole == sec \div Resolution
        h == whole \div 3600
        m == (whole \div 60) % 60
        s == whole % 60
    IN  IF whole >= 3600
        THEN ToString(h) \o ":" \o TwoDigits(m) \o ":" \o TwoDigits(s)
        ELSE TwoDigits(m) \o ":" \o TwoDigits(s)

\* C30: the worker renders a start as "H:MM:SS" (hours as they are) from one
\* hour on and as "MM:SS" below, of the start cut to whole seconds, and the
\* server's renderer gives the same string.
C30_RenderersAgree ==
    stamp # NoStamp =>
        /\ stamp.worker = Claimed(seconds)
        /\ stamp.server = stamp.worker

\* C31: the estimate a client is shown for a duration and a model,
\* floor(d / speed) + 30, is never above the deadline calculate_timeout gives
\* that duration and model: for the job transcribe_url creates, and for each
\* of the five models preflight_check quotes.
C31_EstimateWithinTimeout ==
    plan # NoPlan =>
        /\ "estimated_time" \in DOMAIN plan => plan.estimated_time <= plan.timeout
        /\ "estimates" \in DOMAIN plan =>
                \A m \in {"tiny", "base", "small", "medium", "large"} :
                    plan.estimates[m].seconds <= calculate_timeout(duration_seconds, m)

\* C32: once a record's status is completed or error, no step changes it,
\* whatever the worker printed.
C32_TerminalIsFinal ==
    [][\A j \in DOMAIN jobs \cap DOMAIN jobs' :
            jobs[j].status \in Terminal => jobs'[j].status = jobs[j].status]_vars

\* C33: delete can always be carried out, whether or not the id has a record;
\* right after it get(id) answers 404; and an id that was issued and has no
\* record any more never gets one again, from the job's thread or from any
\* other step.
C33_DeleteIsPermanent ==
    /\ [](\A j \in Ids : ENABLED delete_job(j))
    /\ [][/\ \A j \in Ids : delete_job(j) => (get_job_status(j).code = 404)'
          /\ \A j \in Ids : (j < nextId /\ ~Has(j)) => j \notin DOMAIN jobs'
         ]_vars

\* A record was deleted while its thread was running, and the thread has
\* since come to its next write.
C33_Witness ==
    \E j \in Ids : /\ j < nextId
                   /\ ~Has(j)
                   /\ thread[j].pc = "crashed"

\* C34: once stop has marked a session stopped, no step changes that
\* session's accumulated transcripts, not even a chunk request that passed
\* its status check before the stop and was still reading its upload.
C34_NoAppendAfterStop ==
    [][\A s \in DOMAIN session :
            session[s].status = "stopped" =>
                session'[s].transcripts = session[s].transcripts]_vars

====
